---- MODULE Spec2Model ----
(***************************************************************************)
(* State-machine model of the batch processing pipeline of App.tsx:       *)
(* handleProcessFiles (sequential classify -> extract -> normalize loop   *)
(* with per-file failure isolation and a terminal date sort),             *)
(* handleRetryFile (retry by index), handleDataUpdate (preview-modal      *)
(* edit) and handleDrop / handleFileChange (file selection).              *)
(*                                                                         *)
(* Modelling conventions                                                   *)
(*  - A ProcessedDocument is a record whose DOMAIN is the set of          *)
(*    properties the JavaScript object has ('error' in doc is             *)
(*    "error" \in DOMAIN doc).  Payload properties no handler reads       *)
(*    (categoria, descripcion, contador...) are left out; serie is kept   *)
(*    as their representative.                                             *)
(*  - Date strings are sequences of one-character strings, so that the    *)
(*    regular expressions, split() and the ISO re-assembly of             *)
(*    parseSortableDate are computed character by character.              *)
(*  - A JavaScript Number is a record [k, v]: finite, +/-Infinity or NaN. *)
(*    Date.getTime() is counted in days since 1970-01-01 (the code's      *)
(*    value divided by 86400000 ms, an order-preserving scaling).         *)
(*  - Every await is a suspension point: a handler is cut into one        *)
(*    action per run-to-next-await segment.                               *)
(***************************************************************************)
EXTENDS Integers, Sequences, FiniteSets, TLC

VARIABLES
    files,          \* useState<File[]>: the selected files (by name)
    processedData,  \* useState<AnyProcessedDocument[]>: the published results
    isLoading,      \* useState<boolean>
    progress,       \* processingProgress {current, total, startTime}
    retryingIndex,  \* useState<number | null>
    previewType,    \* previewModalState.documentType (Null = modal closed)
    batch,          \* the in-flight handleProcessFiles call: its closure and locals
    retries,        \* the handleRetryFile calls, in the order they were started
    mounted,        \* FALSE once a render has thrown and React unmounted the tree
    engine,         \* which Date parser the JavaScript engine has
    isZipping,      \* useState<Record<DocumentType, boolean>>
    error,          \* useState<string | null>: the operation-level error
    last,           \* history: the handler segment that ran last
    nEdits,         \* history: number of preview-modal edits so far
    nSelects        \* history: number of file selections so far

vars == <<files, processedData, isLoading, progress, retryingIndex, previewType,
          batch, retries, mounted, engine, isZipping, error, last, nEdits, nSelects>>

-----------------------------------------------------------------------------
(* Bounds *)

MaxFiles == 2        \* longest file list selected in Spec
MaxBatchFiles == 3   \* longest file list selected in SpecBatch
MaxRetries == 2      \* retries started per behaviour (all may be in flight at once)
MaxEdits == 1        \* preview-modal edits per behaviour
MaxSelects == 2      \* file selections per behaviour

-----------------------------------------------------------------------------
(* JavaScript values *)

Null == "null"

Num(n) == [k |-> "fin", v |-> n]
Infinity == [k |-> "inf", v |-> 1]
NegInfinity == [k |-> "inf", v |-> -1]
NaN == [k |-> "nan", v |-> 0]

\* x - y on Numbers (IEEE 754: Infinity - Infinity is NaN)
JsSub(x, y) ==
    IF x.k = "nan" \/ y.k = "nan" THEN NaN
    ELSE IF x.k = "inf" /\ y.k = "inf"
         THEN IF x.v = y.v THEN NaN ELSE x
    ELSE IF x.k = "inf" THEN x
    ELSE IF y.k = "inf" THEN [k |-> "inf", v |-> -(y.v)]
    ELSE Num(x.v - y.v)

\* 'f' in obj
Has(obj, f) == f \in DOMAIN obj

\* obj' = {...obj}; obj'[f] = v
SetField(obj, f, v) == [x \in DOMAIN obj \cup {f} |-> IF x = f THEN v ELSE obj[x]]

\* An array slot that holds no document: a hole left by an assignment beyond
\* the array's length, read back as undefined.
Undefined == [undefined |-> TRUE]

IsUndefined(d) == Has(d, "undefined")

FailureMarker == "Fallo de Procesamiento"

DocumentTypes == {"workOrder", "supplyRequest", "uninstallation", "installation"}

-----------------------------------------------------------------------------
(* parseSortableDate *)

Digits == {"0", "1", "2", "3", "4", "5", "6", "7", "8", "9"}

DigitVal(c) ==
    CASE c = "0" -> 0 [] c = "1" -> 1 [] c = "2" -> 2 [] c = "3" -> 3
      [] c = "4" -> 4 [] c = "5" -> 5 [] c = "6" -> 6 [] c = "7" -> 7
      [] c = "8" -> 8 [] c = "9" -> 9

\* /^\d{2}<sep>\d{2}<sep>\d{2}$/.test(s)
MatchesPattern(s, sep) ==
    /\ Len(s) = 8
    /\ \A i \in {1, 2, 4, 5, 7, 8} : s[i] \in Digits
    /\ s[3] = sep
    /\ s[6] = sep

RECURSIVE SplitFrom(_, _, _, _)
\* s.split(sep): cur is the part being read, i the next position
SplitFrom(s, sep, i, cur) ==
    IF i > Len(s) THEN <<cur>>
    ELSE IF s[i] = sep THEN <<cur>> \o SplitFrom(s, sep, i + 1, <<>>)
    ELSE SplitFrom(s, sep, i + 1, Append(cur, s[i]))

Split(s, sep) == SplitFrom(s, sep, 1, <<>>)

IsLeap(y) == (y % 4 = 0 /\ y % 100 # 0) \/ y % 400 = 0

DaysInMonth(y, m) ==
    CASE m \in {1, 3, 5, 7, 8, 10, 12} -> 31
      [] m \in {4, 6, 9, 11} -> 30
      [] m = 2 -> IF IsLeap(y) THEN 29 ELSE 28

RECURSIVE DaysBeforeMonth(_, _)
DaysBeforeMonth(y, m) ==
    IF m = 1 THEN 0 ELSE DaysBeforeMonth(y, m - 1) + DaysInMonth(y, m - 1)

\* days from 1970-01-01 to y-01-01
DaysBeforeYear(y) ==
    365 * (y - 1970) + ((y - 1969) \div 4) - ((y - 1901) \div 100) + ((y - 1601) \div 400)

\* The two Date parsers in use.  "strict" rejects a day the month does not
\* have (ECMAScript's date-time string format, SpiderMonkey/JavaScriptCore);
\* "rollover" accepts any day 01..31 and carries the excess into the next
\* month (V8).
Engines == {"strict", "rollover"}

\* new Date(iso).getTime() for iso = YYYY-MM-DD (a date-only form: UTC midnight)
DateGetTime(iso, eng) ==
    LET y == 1000 * DigitVal(iso[1]) + 100 * DigitVal(iso[2])
               + 10 * DigitVal(iso[3]) + DigitVal(iso[4])
        m == 10 * DigitVal(iso[6]) + DigitVal(iso[7])
        d == 10 * DigitVal(iso[9]) + DigitVal(iso[10])
        dayLimit == IF eng = "strict" /\ m \in 1..12 THEN DaysInMonth(y, m) ELSE 31
    IN  IF m \in 1..12 /\ d \in 1..dayLimit
        THEN Num(DaysBeforeYear(y) + DaysBeforeMonth(y, m) + d - 1)
        ELSE NaN

\* mutant: the DD-MM-YY branch re-assembles the date month first
parseSortableDateDashMonthFirst(dateString, eng) ==
    LET slashParts == Split(dateString, "/")
        dashParts == Split(dateString, "-")
        slashIso == <<"2", "0">> \o slashParts[3] \o <<"-">> \o slashParts[1]
                        \o <<"-">> \o slashParts[2]
        dashIso == <<"2", "0">> \o dashParts[3] \o <<"-">> \o dashParts[1]
                        \o <<"-">> \o dashParts[2]
    IN  IF dateString = <<>> THEN Infinity
        ELSE IF /\ MatchesPattern(dateString, "/")
                /\ Len(slashParts) = 3
                /\ DateGetTime(slashIso, eng).k # "nan"
             THEN DateGetTime(slashIso, eng)
        ELSE IF /\ MatchesPattern(dateString, "-")
                /\ Len(dashParts) = 3
                /\ DateGetTime(dashIso, eng).k # "nan"
             THEN DateGetTime(dashIso, eng)
        ELSE Infinity

parseSortableDate(dateString, eng) ==
    LET slashParts == Split(dateString, "/")
        dashParts == Split(dateString, "-")
        \* `20${parts[2]}-${parts[0]}-${parts[1]}`
        slashIso == <<"2", "0">> \o slashParts[3] \o <<"-">> \o slashParts[1]
                        \o <<"-">> \o slashParts[2]
        \* `20${parts[2]}-${parts[1]}-${parts[0]}`
        dashIso == <<"2", "0">> \o dashParts[3] \o <<"-">> \o dashParts[2]
                        \o <<"-">> \o dashParts[1]
    IN  IF dateString = <<>> THEN Infinity
        ELSE IF /\ MatchesPattern(dateString, "/")
                /\ Len(slashParts) = 3
                /\ DateGetTime(slashIso, eng).k # "nan"
             THEN DateGetTime(slashIso, eng)
        ELSE IF /\ MatchesPattern(dateString, "-")
                /\ Len(dashParts) = 3
                /\ DateGetTime(dashIso, eng).k # "nan"
             THEN DateGetTime(dashIso, eng)
        ELSE Infinity

-----------------------------------------------------------------------------
(* The terminal sort *)

\* mutant: the comparator reads fecha only
SortDateStringFechaOnly(a) == IF Has(a, "fecha") THEN a.fecha ELSE <<>>

\* 'fechaRegistro' in a ? a.fechaRegistro : ('fecha' in a ? a.fecha : '')
SortDateString(a) ==
    IF Has(a, "fechaRegistro") THEN a.fechaRegistro
    ELSE IF Has(a, "fecha") THEN a.fecha
    ELSE <<>>

\* mutant: the comparator subtracts the other way round
CompareDocsDescending(a, b, eng) ==
    JsSub(parseSortableDate(SortDateString(b), eng), parseSortableDate(SortDateString(a), eng))

\* the comparator handed to sort: dateA - dateB
CompareDocs(a, b, eng) ==
    JsSub(parseSortableDate(SortDateString(a), eng),
          parseSortableDate(SortDateString(b), eng))

\* ECMAScript SortCompare: the comparator's result through ToNumber, NaN read as +0
SortCompare(a, b, eng) ==
    LET r == CompareDocs(a, b, eng)
    IN  IF r.k = "nan" THEN 0 ELSE r.v

RECURSIVE InsertDocBeforeTies(_, _, _)
\* mutant: an unstable insertion, x goes before the elements it ties with
InsertDocBeforeTies(s, x, eng) ==
    IF s = <<>> THEN <<x>>
    ELSE IF SortCompare(x, s[Len(s)], eng) <= 0
         THEN Append(InsertDocBeforeTies(SubSeq(s, 1, Len(s) - 1), x, eng), s[Len(s)])
         ELSE Append(s, x)

RECURSIVE InsertDoc(_, _, _)
\* insert x into the sorted run s, after every element it does not precede
InsertDoc(s, x, eng) ==
    IF s = <<>> THEN <<x>>
    ELSE IF SortCompare(x, s[Len(s)], eng) < 0
         THEN Append(InsertDoc(SubSeq(s, 1, Len(s) - 1), x, eng), s[Len(s)])
         ELSE Append(s, x)

RECURSIVE SortFrom(_, _, _, _)
SortFrom(s, i, acc, eng) ==
    IF i > Len(s) THEN acc ELSE SortFrom(s, i + 1, InsertDoc(acc, s[i], eng), eng)

\* [...allData].sort(comparator): Array.prototype.sort is stable (ES2019)
SortDocs(s, eng) == SortFrom(s, 1, <<>>, eng)

-----------------------------------------------------------------------------
(* Arrays of documents *)

\* a slot never assigned (an array hole): skipped by filter, read as undefined
Hole == [hole |-> TRUE]

IsHole(d) == Has(d, "hole")

\* arr[idx] with the code's 0-based index; undefined beyond the length or at a hole
At(arr, idx) ==
    IF idx + 1 \in 1..Len(arr) /\ ~IsHole(arr[idx + 1]) THEN arr[idx + 1] ELSE Undefined

\* [...arr]: a dense copy, holes read as undefined
Spread(arr) == [i \in 1..Len(arr) |-> IF IsHole(arr[i]) THEN Undefined ELSE arr[i]]

\* {...d}: the own properties of d, none for undefined
ObjSpread(d) == IF IsUndefined(d) THEN <<>> ELSE d

\* arr[idx] = v, which lengthens the array over holes when idx >= arr.length
AssignAt(arr, idx, v) ==
    IF idx < Len(arr) THEN [arr EXCEPT ![idx + 1] = v]
    ELSE arr \o [i \in 1..(idx - Len(arr)) |-> Hole] \o <<v>>

\* arr.filter(d => d.type === t): callbacks are not called on holes
FilterByType(arr, t) ==
    LET Keep(d) == ~IsHole(d) /\ Has(d, "type") /\ d.type = t
    IN  SelectSeq(arr, Keep)

\* a render reads d.type and d.orden of every element filter visits: it throws
\* on an undefined element
Renders(arr) == \A i \in 1..Len(arr) : ~IsUndefined(arr[i])

IsFailed(d) == Has(d, "orden") /\ d.orden = FailureMarker

-----------------------------------------------------------------------------
(* Document Normalizer: the object literals of the switch(type) cases *)

\* mutant: the identifier is used even when it is empty
ArchivoForAlwaysId(id, fileName) == id \o ".pdf"

\* `${id}.pdf` when id is truthy, else the file's name
ArchivoFor(id, fileName) == IF id # "" THEN id \o ".pdf" ELSE fileName

Normalize(type, ext, fileName) ==
    CASE type = "workOrder" ->
            [type |-> "workOrder", orden |-> ext.orden,
             archivo |-> ArchivoFor(ext.orden, fileName), serie |-> ext.serie,
             fechaRegistro |-> ext.fechaRegistro, originalFileName |-> fileName]
      [] type = "supplyRequest" ->
            [type |-> "supplyRequest", orden |-> ext.orden,
             archivo |-> ArchivoFor(ext.orden, fileName), serie |-> ext.serie,
             fechaRegistro |-> ext.fechaRegistro, originalFileName |-> fileName]
      [] type = "uninstallation" ->
            [type |-> "uninstallation", orden |-> ext.folio,
             archivo |-> ArchivoFor(ext.folio, fileName), serie |-> ext.serie,
             fecha |-> ext.fecha, link |-> ArchivoFor(ext.folio, fileName),
             originalFileName |-> fileName]
      [] type = "installation" ->
            [type |-> "installation", orden |-> ext.folio,
             archivo |-> ArchivoFor(ext.folio, fileName), serie |-> ext.serie,
             fecha |-> ext.fecha, link |-> ArchivoFor(ext.folio, fileName),
             originalFileName |-> fileName]

\* mutant: the message is used as thrown, empty or not
MessageOrThrown(msg, fallback) == msg

\* (err as Error).message || fallback
MessageOr(msg, fallback) == IF msg # "" THEN msg ELSE fallback

\* the messages of the code, accents dropped
UnknownTypeMessage == "No se pudo reconocer el tipo de documento."
BatchFallbackMessage == "Ocurrio un error desconocido."
RetryUnknownTypeMessage == "No se pudo reconocer el tipo de documento al reintentar."
RetryFallbackMessage == "El intento de re-procesar fallo."

\* the sentinel pushed by the catch block of the batch loop
FailureSentinel(fileName, msg) ==
    [type |-> "workOrder", orden |-> FailureMarker, archivo |-> fileName,
     serie |-> "Error", fechaRegistro |-> <<>>, originalFileName |-> fileName,
     error |-> MessageOr(msg, BatchFallbackMessage)]

-----------------------------------------------------------------------------
(* External collaborators: what a call can answer *)

\* classifyDocument resolves to one of the four tags or 'unknown', never rejects
ClassifierResults == DocumentTypes \cup {"unknown"}

\* what generateContent can do: answer a text (trimmed here) or reject
ClassifierOutcomes ==
    [ok : {TRUE}, text : DocumentTypes \cup {"unknown", "Orden de Trabajo", ""}]
        \cup {[ok |-> FALSE, text |-> ""]}

\* classifyDocument: one of the four tags when the answer is exactly that tag,
\* 'unknown' for any other answer and for any error
classifyDocument(outcome) ==
    IF outcome.ok /\ outcome.text \in DocumentTypes THEN outcome.text ELSE "unknown"

\* the record an extractor resolves to, every field a string
Extracted(type, D) ==
    IF type \in {"workOrder", "supplyRequest"}
    THEN [orden : D.ids, serie : {"S1"}, fechaRegistro : D.dates]
    ELSE [folio : D.ids, serie : {"S1"}, fecha : D.dates]

-----------------------------------------------------------------------------
(* Inputs *)

FechaEmpty == <<>>
Fecha_01_15_24_slash == <<"0", "1", "/", "1", "5", "/", "2", "4">>   \* MM/DD/YY
Fecha_15_01_24_dash == <<"1", "5", "-", "0", "1", "-", "2", "4">>    \* DD-MM-YY
Fecha_20_01_24_dash == <<"2", "0", "-", "0", "1", "-", "2", "4">>    \* DD-MM-YY
FechaUnparseable == <<"n", "/", "a">>

ThrownMessages == {"", "Unexpected end of JSON input"}

\* file lists of at most n files over the given names (two files may share a name)
FileLists(names, n) == UNION {[1..k -> names] : k \in 0..n}

\* The inputs of Spec: every handler interleaved, over the smallest inputs that
\* tell the cases apart (a document that succeeds or fails, one or two files,
\* two files of the same name, a later selection that shares no name).
FullDom ==
    [lists |-> {fs \in FileLists({"a.pdf", "b.pdf"}, MaxFiles) :
                    fs # <<>> /\ (fs[1] = "a.pdf" \/ Len(fs) = 1)},
     types |-> {"workOrder", "unknown"},
     ids |-> {"1001"},
     dates |-> {Fecha_20_01_24_dash},
     thrown |-> {"Unexpected end of JSON input"},
     edits |-> [orden |-> {"7"}, fecha |-> {}, link |-> {}]]

BatchNames == <<"a.pdf", "b.pdf", "c.pdf", "d.pdf">>

\* The inputs of SpecBatch: batch runs alone, over every document type and
\* over dates that are unparseable, equal in the two formats, and different
\* (a failure sentinel carries the empty date).
BatchDom ==
    [lists |-> {SubSeq(BatchNames, 1, k) : k \in 1..MaxBatchFiles}
                 \cup {<<"a.pdf", "a.pdf">>},
     types |-> ClassifierResults,
     ids |-> {"1001"},
     dates |-> {FechaUnparseable, Fecha_01_15_24_slash, Fecha_15_01_24_dash,
                Fecha_20_01_24_dash},
     thrown |-> {"Unexpected end of JSON input"},
     edits |-> [orden |-> {}, fecha |-> {}, link |-> {}]]

-----------------------------------------------------------------------------
(* State after construction *)

NullIndex == -1     \* retryingIndex === null

IdleProgress == [current |-> 0, total |-> 0, startTime |-> Null]

IdleBatch == [pc |-> "idle"]

IdleRetry == [pc |-> "idle"]

Init ==
    /\ files = <<>>
    /\ processedData = <<>>
    /\ isLoading = FALSE
    /\ progress = IdleProgress
    /\ retryingIndex = NullIndex
    /\ previewType = Null
    /\ batch = IdleBatch
    /\ retries = [s \in 1..MaxRetries |-> IdleRetry]
    /\ mounted = TRUE
    /\ engine \in Engines
    /\ isZipping = [t \in DocumentTypes |-> FALSE]
    /\ error = Null
    /\ last = [op |-> "init", idx |-> -1]
    /\ nEdits = 0
    /\ nSelects = 0

\* setProcessedData(next): the next render throws when it meets undefined
Publish(next) ==
    /\ processedData' = next
    /\ mounted' = Renders(next)

-----------------------------------------------------------------------------
(* handleDrop / handleFileChange *)

SelectFiles(D) ==
    /\ mounted
    /\ nSelects < MaxSelects
    /\ \E fs \in D.lists :
        /\ files' = fs
        /\ Publish(<<>>)
    /\ nSelects' = nSelects + 1
    /\ error' \in {error, Null}    \* handleFileChange: setError(null); handleDrop: kept
    /\ last' = [op |-> "select", idx |-> -1]
    /\ UNCHANGED <<isLoading, progress, retryingIndex, previewType, batch, retries,
                   engine, isZipping, nEdits>>

-----------------------------------------------------------------------------
(* handleProcessFiles *)

\* the click, up to the first await (fileToBase64 of files[0])
ProcessStart ==
    /\ mounted
    /\ ~isLoading
    /\ Len(files) # 0
    /\ isLoading' = TRUE
    /\ Publish(<<>>)
    /\ progress' = [current |-> 1, total |-> Len(files), startTime |-> "t0"]
    /\ batch' = [pc |-> "base64", files |-> files, i |-> 0, allData |-> <<>>,
                 type |-> Null, attempted |-> 1, published |-> 0, delays |-> 0]
    /\ error' = Null
    /\ last' = [op |-> "processStart", idx |-> 0]
    /\ UNCHANGED <<files, retryingIndex, previewType, retries, engine, isZipping, nEdits,
                   nSelects>>

\* mutant: delay(200) is not awaited, the loop goes straight on to the next file
BatchPushNoDelay(doc, op) ==
    /\ batch' = IF batch.i + 1 < Len(batch.files)
                THEN [batch EXCEPT !.pc = "base64", !.allData = Append(@, doc),
                                   !.type = Null, !.published = @ + 1, !.i = @ + 1,
                                   !.attempted = @ + 1]
                ELSE [batch EXCEPT !.pc = "delay", !.allData = Append(@, doc),
                                   !.type = Null, !.published = @ + 1]
    /\ Publish(Append(batch.allData, doc))
    /\ last' = [op |-> op, idx |-> batch.i]
    /\ UNCHANGED <<files, isLoading, progress, retryingIndex, previewType, retries,
                   engine, isZipping, error, nEdits, nSelects>>

\* allData.push(doc); setProcessedData([...allData]); await delay(200)
BatchPush(doc, op) ==
    /\ batch' = [batch EXCEPT !.pc = "delay", !.allData = Append(@, doc),
                              !.type = Null, !.published = @ + 1]
    /\ Publish(Append(batch.allData, doc))
    /\ last' = [op |-> op, idx |-> batch.i]
    /\ UNCHANGED <<files, isLoading, progress, retryingIndex, previewType, retries,
                   engine, isZipping, error, nEdits, nSelects>>

\* mutant: the failure escapes the loop, the run ends with the files so far
BatchCatchAbort(msg) ==
    /\ batch' = IdleBatch
    /\ Publish(Append(batch.allData, FailureSentinel(batch.files[batch.i + 1], msg)))
    /\ isLoading' = FALSE
    /\ progress' = IdleProgress
    /\ last' = [op |-> "batchFail", idx |-> batch.i]
    /\ UNCHANGED <<files, retryingIndex, previewType, retries, engine, isZipping, error,
                   nEdits, nSelects>>

\* the catch block
BatchCatch(msg) ==
    BatchPush(FailureSentinel(batch.files[batch.i + 1], msg), "batchFail")

\* fileToBase64 resolves (classifyDocument is called) or rejects
BatchBase64Settles(D) ==
    /\ mounted
    /\ batch.pc = "base64"
    /\ \/ /\ batch' = [batch EXCEPT !.pc = "classify"]
          /\ last' = [op |-> "step", idx |-> -1]
          /\ UNCHANGED <<files, processedData, isLoading, progress, retryingIndex,
                         previewType, retries, mounted, engine, isZipping, error, nEdits,
                         nSelects>>
       \/ \E msg \in D.thrown : BatchCatch(msg)

\* mutant: an unrecognized document is handed to the work order extractor
BatchClassifyReturnsNoCheck(D) ==
    /\ mounted
    /\ batch.pc = "classify"
    /\ \E t \in D.types :
        /\ batch' = [batch EXCEPT !.pc = "extract",
                                  !.type = IF t = "unknown" THEN "workOrder" ELSE t]
        /\ last' = [op |-> "classified", idx |-> batch.i, type |-> t]
        /\ UNCHANGED <<files, processedData, isLoading, progress, retryingIndex,
                       previewType, retries, mounted, engine, isZipping, error, nEdits,
                       nSelects>>

\* classifyDocument resolves: 'unknown' throws, a tag calls its extractor (the
\* history keeps the classifier's answer)
BatchClassifyReturns(D) ==
    /\ mounted
    /\ batch.pc = "classify"
    /\ \E t \in D.types :
        IF t = "unknown"
        THEN BatchCatch(UnknownTypeMessage)
        ELSE /\ batch' = [batch EXCEPT !.pc = "extract", !.type = t]
             /\ last' = [op |-> "classified", idx |-> batch.i, type |-> t]
             /\ UNCHANGED <<files, processedData, isLoading, progress, retryingIndex,
                            previewType, retries, mounted, engine, isZipping, error,
                            nEdits, nSelects>>

\* mutant: the catch block goes on to the next file without the pacing delay
BatchExtractSettlesNoDelayOnFailure(D) ==
    /\ mounted
    /\ batch.pc = "extract"
    /\ \/ \E ext \in Extracted(batch.type, D) :
            BatchPush(Normalize(batch.type, ext, batch.files[batch.i + 1]), "batchPush")
       \/ \E msg \in D.thrown :
            BatchPushNoDelay(FailureSentinel(batch.files[batch.i + 1], msg), "batchFail")

\* the extractor resolves (the normalized document is pushed) or rejects
BatchExtractSettles(D) ==
    /\ mounted
    /\ batch.pc = "extract"
    /\ \/ \E ext \in Extracted(batch.type, D) :
            BatchPush(Normalize(batch.type, ext, batch.files[batch.i + 1]), "batchPush")
       \/ \E msg \in D.thrown : BatchCatch(msg)

\* mutant: the loop goes on without publishing the new progress
BatchNextFileKeepsProgress ==
    /\ mounted
    /\ batch.pc = "delay"
    /\ batch.i + 1 < Len(batch.files)
    /\ batch' = [batch EXCEPT !.pc = "base64", !.i = @ + 1, !.delays = @ + 1,
                              !.attempted = @ + 1]
    /\ last' = [op |-> "step", idx |-> -1]
    /\ UNCHANGED <<files, processedData, isLoading, progress, retryingIndex, previewType,
                   retries, mounted, engine, isZipping, error, nEdits, nSelects>>

\* delay(200) elapses and the loop goes on to the next file
BatchNextFile ==
    /\ mounted
    /\ batch.pc = "delay"
    /\ batch.i + 1 < Len(batch.files)
    /\ batch' = [batch EXCEPT !.pc = "base64", !.i = @ + 1, !.delays = @ + 1,
                              !.attempted = @ + 1]
    /\ progress' = [progress EXCEPT !.current = batch.i + 2]
    /\ last' = [op |-> "step", idx |-> -1]
    /\ UNCHANGED <<files, processedData, isLoading, retryingIndex, previewType, retries,
                   mounted, engine, isZipping, error, nEdits, nSelects>>

\* the counts of the closing toast: successCount is the number of documents
\* whose orden is not the failure marker, failCount is the rest
Summary(allData) ==
    LET successCount == Len(SelectSeq(allData, LAMBDA d : d.orden # FailureMarker))
    IN  [successCount |-> successCount, failCount |-> Len(allData) - successCount]

\* mutant: the final publication keeps the documents that did not fail
BatchFinishSuccessesOnly ==
    /\ mounted
    /\ batch.pc = "delay"
    /\ ~(batch.i + 1 < Len(batch.files))
    /\ Publish(SortDocs(SelectSeq(batch.allData, LAMBDA d : ~IsFailed(d)), engine))
    /\ isLoading' = FALSE
    /\ progress' = IdleProgress
    /\ batch' = IdleBatch
    /\ last' = [op |-> "batchFinish", idx |-> batch.i, toast |-> Summary(batch.allData)]
    /\ UNCHANGED <<files, retryingIndex, previewType, retries, engine, isZipping, error,
                   nEdits, nSelects>>

\* delay(200) elapses after the last file: sort, publish, reset, report the
\* summary (kept in the history)
BatchFinish ==
    /\ mounted
    /\ batch.pc = "delay"
    /\ ~(batch.i + 1 < Len(batch.files))
    /\ Publish(SortDocs(batch.allData, engine))
    /\ isLoading' = FALSE
    /\ progress' = IdleProgress
    /\ batch' = IdleBatch
    /\ last' = [op |-> "batchFinish", idx |-> batch.i, toast |-> Summary(batch.allData)]
    /\ UNCHANGED <<files, retryingIndex, previewType, retries, engine, isZipping, error,
                   nEdits, nSelects>>

-----------------------------------------------------------------------------
(* handleRetryFile *)

\* files.find(f => f.name === name) finds a file
HasFile(fs, name) == \E j \in 1..Len(fs) : fs[j] = name

\* the calls not started yet (the k-th call started takes slot k)
FreeSlots == {s \in 1..MaxRetries : retries[s].pc = "idle"}

DoneRetry == [pc |-> "done"]

\* the row of processedData[index] shows an enabled retry button
RetryEnabled(index) ==
    /\ index \in 0..(Len(processedData) - 1)
    /\ IsFailed(At(processedData, index))
    /\ retryingIndex # index

\* the click, up to the first await, when a file of that name is selected
RetryStart ==
    /\ mounted
    /\ FreeSlots # {}
    /\ \E index \in 0..(Len(processedData) - 1) :
        LET docToRetry == At(processedData, index)
            slot == CHOOSE s \in FreeSlots : \A r \in FreeSlots : s <= r
        IN  /\ RetryEnabled(index)
            /\ HasFile(files, docToRetry.originalFileName)
            /\ retryingIndex' = index
            /\ retries' = [retries EXCEPT ![slot] =
                             [pc |-> "base64", index |-> index,
                              file |-> docToRetry.originalFileName, type |-> Null]]
            /\ last' = [op |-> "retryStart", idx |-> index]
    /\ UNCHANGED <<files, processedData, isLoading, progress, previewType, batch,
                   mounted, engine, isZipping, error, nEdits, nSelects>>

\* mutant: the early return forgets setRetryingIndex(null)
RetryNoMatchKeepsIndicator ==
    /\ mounted
    /\ FreeSlots # {}
    /\ \E index \in 0..(Len(processedData) - 1) :
        /\ RetryEnabled(index)
        /\ ~HasFile(files, At(processedData, index).originalFileName)
        /\ last' = [op |-> "retryNoMatch", idx |-> index]
        /\ retryingIndex' = index
    /\ retries' = [retries EXCEPT ![CHOOSE s \in FreeSlots : \A r \in FreeSlots : s <= r]
                                     = DoneRetry]
    /\ UNCHANGED <<files, processedData, isLoading, progress, previewType, batch,
                   mounted, engine, isZipping, error, nEdits, nSelects>>

\* the click when no selected file has the document's originalFileName
RetryNoMatch ==
    /\ mounted
    /\ FreeSlots # {}
    /\ \E index \in 0..(Len(processedData) - 1) :
        /\ RetryEnabled(index)
        /\ ~HasFile(files, At(processedData, index).originalFileName)
        /\ last' = [op |-> "retryNoMatch", idx |-> index]
    /\ retryingIndex' = NullIndex
    /\ retries' = [retries EXCEPT ![CHOOSE s \in FreeSlots : \A r \in FreeSlots : s <= r]
                                     = DoneRetry]
    /\ UNCHANGED <<files, processedData, isLoading, progress, previewType, batch,
                   mounted, engine, isZipping, error, nEdits, nSelects>>

\* prevData => { updatedData = [...prevData]; updatedData[index] = newData }
RetrySuccessUpdate(prevData, index, newData) ==
    AssignAt(Spread(prevData), index, newData)

\* prevData => { updatedData = [...prevData]; failedDoc = {...updatedData[index]};
\*               failedDoc.error = errorMessage; updatedData[index] = failedDoc }
RetryFailureUpdate(prevData, index, errorMessage) ==
    LET updatedData == Spread(prevData)
        failedDoc == SetField(ObjSpread(At(updatedData, index)), "error", errorMessage)
    IN  AssignAt(updatedData, index, failedDoc)

\* mutant: the result is written to the row the shared retrying indicator names
RetrySucceedSharedIndex(slot, newData) ==
    /\ Publish(RetrySuccessUpdate(processedData,
                                  IF retryingIndex # NullIndex THEN retryingIndex
                                  ELSE retries[slot].index, newData))
    /\ retryingIndex' = NullIndex
    /\ retries' = [retries EXCEPT ![slot] = DoneRetry]
    /\ last' = [op |-> "retrySuccess", idx |-> retries[slot].index]
    /\ UNCHANGED <<files, isLoading, progress, previewType, batch, engine, isZipping,
                   error, nEdits, nSelects>>

\* the end of the try block, then finally
RetrySucceed(slot, newData) ==
    /\ Publish(RetrySuccessUpdate(processedData, retries[slot].index, newData))
    /\ retryingIndex' = NullIndex
    /\ retries' = [retries EXCEPT ![slot] = DoneRetry]
    /\ last' = [op |-> "retrySuccess", idx |-> retries[slot].index]
    /\ UNCHANGED <<files, isLoading, progress, previewType, batch, engine, isZipping,
                   error, nEdits, nSelects>>

\* the catch block, then finally
RetryCatch(slot, msg) ==
    /\ Publish(RetryFailureUpdate(processedData, retries[slot].index,
                                  MessageOr(msg, RetryFallbackMessage)))
    /\ retryingIndex' = NullIndex
    /\ retries' = [retries EXCEPT ![slot] = DoneRetry]
    /\ last' = [op |-> "retryFailure", idx |-> retries[slot].index]
    /\ UNCHANGED <<files, isLoading, progress, previewType, batch, engine, isZipping,
                   error, nEdits, nSelects>>

RetryBase64Settles(D) ==
    /\ mounted
    /\ \E slot \in 1..MaxRetries :
        /\ retries[slot].pc = "base64"
        /\ \/ /\ retries' = [retries EXCEPT ![slot].pc = "classify"]
              /\ last' = [op |-> "step", idx |-> -1]
              /\ UNCHANGED <<files, processedData, isLoading, progress, retryingIndex,
                             previewType, batch, mounted, engine, isZipping, error,
                             nEdits, nSelects>>
           \/ \E msg \in D.thrown : RetryCatch(slot, msg)

RetryClassifyReturns(D) ==
    /\ mounted
    /\ \E slot \in 1..MaxRetries :
        /\ retries[slot].pc = "classify"
        /\ \E t \in D.types :
            IF t = "unknown"
            THEN RetryCatch(slot, RetryUnknownTypeMessage)
            ELSE /\ retries' = [retries EXCEPT ![slot].pc = "extract", ![slot].type = t]
                 /\ last' = [op |-> "step", idx |-> -1]
                 /\ UNCHANGED <<files, processedData, isLoading, progress, retryingIndex,
                                previewType, batch, mounted, engine, isZipping, error,
                                nEdits, nSelects>>

RetryExtractSettles(D) ==
    /\ mounted
    /\ \E slot \in 1..MaxRetries :
        /\ retries[slot].pc = "extract"
        /\ \/ \E ext \in Extracted(retries[slot].type, D) :
                RetrySucceed(slot, Normalize(retries[slot].type, ext, retries[slot].file))
           \/ \E msg \in D.thrown : RetryCatch(slot, msg)

-----------------------------------------------------------------------------
(* The preview modal and handleDataUpdate *)

\* "Previsualizar y Editar" of a type's section, shown when the type has a
\* document that did not fail
OpenPreview ==
    /\ mounted
    /\ previewType = Null
    /\ nEdits < MaxEdits
    /\ \E t \in DocumentTypes :
        /\ \E i \in 1..Len(processedData) :
              /\ ~IsHole(processedData[i])
              /\ Has(processedData[i], "type")
              /\ processedData[i].type = t
              /\ ~IsFailed(processedData[i])
        /\ previewType' = t
    /\ last' = [op |-> "step", idx |-> -1]
    /\ UNCHANGED <<files, processedData, isLoading, progress, retryingIndex, batch,
                   retries, mounted, engine, isZipping, error, nEdits, nSelects>>

ClosePreview ==
    /\ mounted
    /\ previewType # Null
    /\ previewType' = Null
    /\ last' = [op |-> "step", idx |-> -1]
    /\ UNCHANGED <<files, processedData, isLoading, progress, retryingIndex, batch,
                   retries, mounted, engine, isZipping, error, nEdits, nSelects>>

\* the cells PreviewModal.renderRow makes editable, for the modelled properties
EditableFields(type) ==
    IF type \in {"workOrder", "supplyRequest"}
    THEN {"orden", "serie", "fechaRegistro"}
    ELSE {"orden", "serie", "fecha", "link"}

\* the values typed into a cell of that field
EditValues(D, field) ==
    IF field \in {"fechaRegistro", "fecha"} THEN D.edits.fecha
    ELSE IF field = "orden" THEN D.edits.orden
    ELSE IF field = "link" THEN D.edits.link
    ELSE {}

\* prevData.findIndex(item => item.originalFileName === name): -1 when none,
\* -2 when the callback throws on an undefined item first
RECURSIVE FindIndexFrom(_, _, _)
FindIndexFrom(arr, name, i) ==
    IF i >= Len(arr) THEN -1
    ELSE IF IsHole(arr[i + 1]) \/ IsUndefined(arr[i + 1]) THEN -2
    ELSE IF Has(arr[i + 1], "originalFileName") /\ arr[i + 1].originalFileName = name
         THEN i
    ELSE FindIndexFrom(arr, name, i + 1)

\* the updater of handleDataUpdate: rendered is the processedData of the
\* closure, prevData the state the updater is applied to
DataUpdate(prevData, rendered, docType, index, field, value) ==
    LET dataForModal == FilterByType(rendered, docType)
        originalIndex == FindIndexFrom(prevData, dataForModal[index + 1].originalFileName, 0)
        newData == Spread(prevData)
    IN  IF originalIndex >= 0
        THEN [newData EXCEPT ![originalIndex + 1] = SetField(@, field, value)]
        ELSE newData

\* onChange of an editable cell of the open modal
EditField(D) ==
    /\ mounted
    /\ previewType # Null
    /\ nEdits < MaxEdits
    /\ LET dataForModal == FilterByType(processedData, previewType)
       IN  \E index \in 0..(Len(dataForModal) - 1) :
            \E field \in EditableFields(previewType) :
              \E value \in EditValues(D, field) :
                LET target == dataForModal[index + 1].originalFileName
                IN  /\ IF FindIndexFrom(processedData, target, 0) = -2
                       THEN /\ mounted' = FALSE
                            /\ UNCHANGED processedData
                       ELSE Publish(DataUpdate(processedData, processedData,
                                               previewType, index, field, value))
                    /\ last' = [op |-> "edit", idx |-> index]
    /\ nEdits' = nEdits + 1
    /\ UNCHANGED <<files, isLoading, progress, retryingIndex, previewType, batch,
                   retries, engine, isZipping, error, nSelects>>

-----------------------------------------------------------------------------
(* Specifications *)

\* every handler, in every interleaving of their segments
Next ==
    \/ SelectFiles(FullDom)
    \/ ProcessStart
    \/ BatchBase64Settles(FullDom)
    \/ BatchClassifyReturns(FullDom)
    \/ BatchExtractSettles(FullDom)
    \/ BatchNextFile
    \/ BatchFinish
    \/ RetryStart
    \/ RetryNoMatch
    \/ RetryBase64Settles(FullDom)
    \/ RetryClassifyReturns(FullDom)
    \/ RetryExtractSettles(FullDom)
    \/ OpenPreview
    \/ ClosePreview
    \/ EditField(FullDom)

Spec == Init /\ [][Next]_vars

\* batch runs alone: files are selected while no run is in flight, and no
\* retry or edit happens
NextBatch ==
    \/ (~isLoading /\ SelectFiles(BatchDom))
    \/ ProcessStart
    \/ BatchBase64Settles(BatchDom)
    \/ BatchClassifyReturns(BatchDom)
    \/ BatchExtractSettles(BatchDom)
    \/ BatchNextFile
    \/ BatchFinish

SpecBatch == Init /\ [][NextBatch]_vars

-----------------------------------------------------------------------------
(* Vocabulary of the claims *)

\* the step on which a batch run ends by its terminal sort
RunFinishes == batch.pc = "delay" /\ batch'.pc = "idle"

\* the step on which a batch run ends, however it ends
RunEnds == batch.pc # "idle" /\ batch'.pc = "idle"

\* how often a file name occurs in a list of names
CountName(names, n) == Cardinality({j \in 1..Len(names) : names[j] = n})

\* how often a document occurs in a sequence
CountDoc(docs, d) == Cardinality({j \in 1..Len(docs) : docs[j] = d})

\* the originalFileName values of a sequence of complete documents
FileNamesOf(docs) == [j \in 1..Len(docs) |-> docs[j].originalFileName]

IsPermutation(s, t) ==
    /\ Len(s) = Len(t)
    /\ \A j \in 1..Len(t) : CountDoc(s, t[j]) = CountDoc(t, t[j])

\* a document's sort key as the claims state it
ClaimKey(d) ==
    IF Has(d, "fechaRegistro") THEN parseSortableDate(d.fechaRegistro, engine)
    ELSE IF Has(d, "fecha") THEN parseSortableDate(d.fecha, engine)
    ELSE Infinity

\* x <= y on sort keys (a timestamp or positive infinity)
KeyLeq(x, y) == y.k = "inf" \/ (x.k = "fin" /\ y.k = "fin" /\ x.v <= y.v)

\* the sort keys of a sequence of documents, index by index
KeysOf(docs) == [j \in 1..Len(docs) |-> ClaimKey(docs[j])]

\* the documents of a sequence whose key (keys[j] for docs[j]) is k, in the
\* sequence's order
WithKey(docs, keys, k) ==
    LET idx == {j \in 1..Len(docs) : keys[j] = k}
    IN  [n \in 1..Cardinality(idx) |->
            docs[CHOOSE j \in idx : Cardinality({i \in idx : i < j}) = n - 1]]

\* a slot of the result sequence that holds a document
IsDocument(d) == ~IsHole(d) /\ ~IsUndefined(d)

\* the retry calls that are between their click and their completion
InFlight == {s \in 1..MaxRetries : retries[s].pc \in {"base64", "classify", "extract"}}

\* the step on which the retry call of slot s completes (try or catch, then finally)
RetryCompletes(s) == s \in InFlight /\ retries'[s].pc = "done"

-----------------------------------------------------------------------------
(* Claims *)

\* C1: when a batch run over a non-empty file list completes, the published
\* result sequence holds exactly one document per input file: its length is
\* the number of files and every file name occurs as originalFileName as often
\* as it occurs in the file list.
C1_OneDocumentPerFile ==
    [][RunFinishes =>
        /\ Len(batch.files) > 0
        /\ Len(processedData') = Len(batch.files)
        /\ \A j \in 1..Len(processedData') : Has(processedData'[j], "originalFileName")
        /\ \A n \in {batch.files[j] : j \in 1..Len(batch.files)} :
              CountName(FileNamesOf(processedData'), n) = CountName(batch.files, n)]_vars

\* C1 witness: a run over two files of the same name has finished, one file
\* failed and one succeeded
C1_Witness ==
    /\ last.op = "batchFinish"
    /\ Len(processedData) = 2
    /\ processedData[1].originalFileName = processedData[2].originalFileName
    /\ ~IsFailed(processedData[1])
    /\ IsFailed(processedData[2])

C3_ErrorIffFailureMarker ==
    \A j \in 1..Len(processedData) :
        IsDocument(processedData[j]) =>
            (Has(processedData[j], "error") <=> IsFailed(processedData[j]))

\* C4: the sequence published at the end of a batch run is a permutation of
\* the accumulated sequence and is ascending by sort key, positive infinity
\* (empty or unparseable date, failure sentinels) last.
C4_SortedPermutation ==
    [][RunFinishes =>
        /\ IsPermutation(processedData', batch.allData)
        /\ \A i, j \in 1..Len(processedData') :
              i < j => KeyLeq(ClaimKey(processedData'[i]), ClaimKey(processedData'[j]))]_vars

\* C4 witness: a finished run whose sort reversed three files: the first
\* failed, the second is dated 20 January and the third 15 January
C4_Witness ==
    /\ last.op = "batchFinish"
    /\ Len(processedData) = 3
    /\ FileNamesOf(processedData) = <<"c.pdf", "b.pdf", "a.pdf">>
    /\ IsFailed(processedData[3])
    /\ ClaimKey(processedData[1]).k = "fin"
    /\ ClaimKey(processedData[1]) # ClaimKey(processedData[2])

\* C5: the terminal sort is stable: the documents that share a sort key (equal
\* dates, or positive infinity for both) are in the sorted result in the
\* order they have in the accumulated sequence.
C5_StableSort ==
    [][RunFinishes =>
        LET accumulated == KeysOf(batch.allData)
            sorted == KeysOf(processedData')
        IN  \A k \in {accumulated[j] : j \in 1..Len(batch.allData)} :
                WithKey(processedData', sorted, k) = WithKey(batch.allData, accumulated, k)]_vars

\* C5 witness: a finished run that moved b.pdf in front of a.pdf and kept
\* a.pdf before c.pdf, whose keys are both positive infinity (an unparseable
\* date and a failure sentinel's empty date)
C5_Witness ==
    /\ last.op = "batchFinish"
    /\ Len(processedData) = 3
    /\ FileNamesOf(processedData) = <<"b.pdf", "a.pdf", "c.pdf">>
    /\ ClaimKey(processedData[2]) = Infinity
    /\ ClaimKey(processedData[3]) = Infinity
    /\ ~IsFailed(processedData[2])
    /\ IsFailed(processedData[3])

\* C6: the completion of a retry on index i leaves the length of the result
\* sequence and every document at an index other than i unchanged.
C6_RetryChangesOnlyItsSlot ==
    [][\A s \in 1..MaxRetries :
          RetryCompletes(s) =>
              /\ Len(processedData') = Len(processedData)
              /\ \A j \in 0..(Len(processedData) - 1) :
                    j # retries[s].index => At(processedData', j) = At(processedData, j)]_vars

\* the step of a retry click: a retry slot leaves "idle"
RetryClick == \E s \in 1..MaxRetries : retries[s].pc = "idle" /\ retries'[s].pc # "idle"

\* C7: a retry click on an index whose document's originalFileName matches no
\* selected file is a no-op: the result sequence is unchanged, no call to the
\* classifier or an extractor is started, and the retrying indicator is null
\* afterwards.
C7_RetryWithoutFileIsNoOp ==
    [][(RetryClick /\ ~HasFile(files, At(processedData, last'.idx).originalFileName)) =>
          /\ processedData' = processedData
          /\ InFlight' = InFlight
          /\ retryingIndex' = NullIndex]_vars

\* C7 witness: a retry click found no selected file for a failure record of
\* the result sequence, and the retrying indicator is null
C7_Witness ==
    /\ last.op = "retryNoMatch"
    /\ IsFailed(At(processedData, last.idx))
    /\ ~HasFile(files, At(processedData, last.idx).originalFileName)
    /\ retryingIndex = NullIndex

\* the messages a retry's catch block can record
RetryMessages ==
    {RetryUnknownTypeMessage, RetryFallbackMessage} \cup FullDom.thrown

\* C8: when a retry on index i completes, docs[i] is on success a normalized
\* document without an error field, and on failure a failure record: its orden
\* is the failure marker and its error is a message of this retry.
C8_RetryReplacesWholesale ==
    [][\A s \in 1..MaxRetries :
          RetryCompletes(s) =>
              LET d == At(processedData', retries[s].index)
              IN  /\ IsDocument(d)
                  /\ last'.op = "retrySuccess" => ~Has(d, "error") /\ ~IsFailed(d)
                  /\ last'.op = "retryFailure" =>
                        /\ IsFailed(d)
                        /\ Has(d, "error")
                        /\ d.error \in RetryMessages]_vars

\* C9: while a batch run is between its start and its terminal sort, the
\* published result sequence has one document per handled file and its j-th
\* document carries the name of the j-th input file.
C9_PublishedInInputOrder ==
    batch.pc # "idle" =>
        /\ Len(processedData) = batch.published
        /\ \A j \in 1..Len(processedData) :
              /\ IsDocument(processedData[j])
              /\ Has(processedData[j], "originalFileName")
              /\ processedData[j].originalFileName = batch.files[j]

\* C10: files are processed one at a time: while the classifier call of the
\* file at index i is outstanding, the records of the i files before it have
\* been appended and published and their i pacing delays have elapsed.
C10_OneFileAtATime ==
    batch.pc = "classify" =>
        /\ Len(batch.allData) = batch.i
        /\ batch.published = batch.i
        /\ batch.delays = batch.i

\* C10 witness: the classifier call of the third file is outstanding
C10_Witness == batch.pc = "classify" /\ batch.i = 2

-----------------------------------------------------------------------------
(* Batch runs and retries that respect each other: files are selected and a
   run is started only while nothing is in flight, and a retry is started only
   while no run is in flight *)

MaxRuns == 1

\* Two files, every document type, an empty and a non-empty identifier.
PipelineDom ==
    [lists |-> {<<"a.pdf", "b.pdf">>},
     types |-> ClassifierResults,
     ids |-> {"", "FOL123"},
     dates |-> {Fecha_20_01_24_dash},
     thrown |-> {"Unexpected end of JSON input"},
     edits |-> [orden |-> {}, fecha |-> {}, link |-> {}]]

NextPipeline ==
    \/ (~isLoading /\ InFlight = {} /\ nSelects < MaxRuns /\ SelectFiles(PipelineDom))
    \/ (InFlight = {} /\ ProcessStart)
    \/ BatchBase64Settles(PipelineDom)
    \/ BatchClassifyReturns(PipelineDom)
    \/ BatchExtractSettles(PipelineDom)
    \/ BatchNextFile
    \/ BatchFinish
    \/ (~isLoading /\ RetryStart)
    \/ RetryBase64Settles(PipelineDom)
    \/ RetryClassifyReturns(PipelineDom)
    \/ RetryExtractSettles(PipelineDom)

SpecPipeline == Init /\ [][NextPipeline]_vars

\* the name of the file whose segment ran in this step: the batch loop's
\* current file, or the file of the retry call that completes
ProcessedFileName ==
    IF last'.op = "batchPush" THEN batch.files[batch.i + 1]
    ELSE (CHOOSE r \in {retries[s] : s \in {x \in 1..MaxRetries : RetryCompletes(x)}} : TRUE).file

\* C11: the document normalized by the batch pipeline or by a retry has
\* archivo equal to its identifier (orden, which holds the extracted orden or
\* folio) followed by ".pdf" when the identifier is non-empty, and equal to
\* the name of the processed file when it is empty.
C11_ArchivoDerivation ==
    [][last'.op \in {"batchPush", "retrySuccess"} =>
        LET d == At(processedData', last'.idx)
        IN  /\ d.type \in DocumentTypes
            /\ d.originalFileName = ProcessedFileName
            /\ d.orden # "" => d.archivo = d.orden \o ".pdf"
            /\ d.orden = "" => d.archivo = ProcessedFileName]_vars

\* C11 witness: the batch run gave a.pdf an installation document with an
\* empty folio, and a retry has just given b.pdf a supply request named after
\* its orden
C11_Witness ==
    /\ last = [op |-> "retrySuccess", idx |-> 1]
    /\ Len(processedData) = 2
    /\ processedData[1].type = "installation"
    /\ processedData[1].orden = ""
    /\ processedData[1].archivo = "a.pdf"
    /\ processedData[2].type = "supplyRequest"
    /\ processedData[2].orden = "FOL123"
    /\ processedData[2].archivo = "FOL123.pdf"

-----------------------------------------------------------------------------
(* Batch runs followed by preview-modal edits of the link cell *)

\* Installation and uninstallation documents, and a value typed into LINK.
EditDom ==
    [lists |-> {<<"a.pdf">>, <<"a.pdf", "b.pdf">>},
     types |-> {"installation", "uninstallation", "unknown"},
     ids |-> {"", "FOL123"},
     dates |-> {Fecha_20_01_24_dash},
     thrown |-> {"Unexpected end of JSON input"},
     edits |-> [orden |-> {}, fecha |-> {}, link |-> {"otro.pdf"}]]

NextEdit ==
    \/ (~isLoading /\ nSelects < MaxRuns /\ SelectFiles(EditDom))
    \/ ProcessStart
    \/ BatchBase64Settles(EditDom)
    \/ BatchClassifyReturns(EditDom)
    \/ BatchExtractSettles(EditDom)
    \/ BatchNextFile
    \/ BatchFinish
    \/ OpenPreview
    \/ ClosePreview
    \/ EditField(EditDom)

SpecEdit == Init /\ [][NextEdit]_vars

\* C12: every installation or uninstallation document of the result sequence
\* has link equal to archivo, in every reachable state.
C12_LinkEqualsArchivo ==
    \A j \in 1..Len(processedData) :
        LET d == processedData[j]
        IN  (IsDocument(d) /\ Has(d, "type") /\ d.type \in {"installation", "uninstallation"})
                => (Has(d, "link") /\ Has(d, "archivo") /\ d.link = d.archivo)

-----------------------------------------------------------------------------
(* parseSortableDate under the terminal sort: a run over two files that has
   published both documents and waits for its last delay, over date strings
   drawn from bounded sets *)

DigitChar(n) == CHOOSE c \in Digits : DigitVal(c) = n

\* the two-digit segment that writes n
Seg2(n) == <<DigitChar(n \div 10), DigitChar(n % 10)>>

DateWith(a, b, c, sep) == a \o <<sep>> \o b \o <<sep>> \o c

\* segments for one date: no month or day 00, a 13th month, days 29..32,
\* the years 2000, 2023, 2024
ParseSegs == {Seg2(n) : n \in {0, 1, 2, 4, 12, 13, 23, 24, 29, 30, 31, 32}}

\* strings that match neither regular expression
MalformedDates ==
    {<<"n", "/", "a">>,
     <<"1", "/", "1", "5", "/", "2", "4">>,
     <<"0", "1", "/", "1", "5", "/", "2", "0", "2", "4">>,
     <<"0", "1", "/", "1", "5", "-", "2", "4">>,
     <<"0", "1", ".", "1", "5", ".", "2", "4">>,
     <<"0", "1", "/", "1", "5", "/", "2", "4", " ">>,
     <<"0", "a", "/", "1", "5", "/", "2", "4">>}

ParseInputs ==
    {DateWith(a, b, c, sep) : a \in ParseSegs, b \in ParseSegs, c \in ParseSegs,
                              sep \in {"/", "-"}}
        \cup MalformedDates \cup {<<>>}

\* segments for a pair of dates
OrderSegs == {Seg2(n) : n \in {1, 12, 15, 20, 24}}

OrderInputs ==
    {DateWith(a, b, c, sep) : a \in OrderSegs, b \in OrderSegs, c \in OrderSegs,
                              sep \in {"/", "-"}}

\* what the two extractors answered: a work order's fechaRegistro and an
\* installation's fecha
DatedRun(s1, s2) ==
    <<Normalize("workOrder", [orden |-> "1001", serie |-> "S1", fechaRegistro |-> s1],
                "a.pdf"),
      Normalize("installation", [folio |-> "FOL123", serie |-> "S1", fecha |-> s2],
                "b.pdf")>>

\* the runs: any first date beside the reference date, or a pair of dates
DatedRuns(reference) ==
    {DatedRun(s1, reference) : s1 \in ParseInputs}
        \cup {DatedRun(s1, s2) : s1 \in OrderInputs, s2 \in OrderInputs}

InitDates ==
    /\ files = <<"a.pdf", "b.pdf">>
    /\ \E docs \in DatedRuns(Fecha_15_01_24_dash) :
        /\ processedData = docs
        /\ batch = [pc |-> "delay", files |-> files, i |-> 1, allData |-> docs,
                    type |-> Null, attempted |-> 2, published |-> 2, delays |-> 1]
    /\ isLoading = TRUE
    /\ progress = [current |-> 2, total |-> 2, startTime |-> "t0"]
    /\ retryingIndex = NullIndex
    /\ previewType = Null
    /\ retries = [s \in 1..MaxRetries |-> IdleRetry]
    /\ mounted = TRUE
    /\ engine \in Engines
    /\ isZipping = [t \in DocumentTypes |-> FALSE]
    /\ error = Null
    /\ last = [op |-> "batchPush", idx |-> 1]
    /\ nEdits = 0
    /\ nSelects = 1

NextDates == BatchFinish

SpecDates == InitDates /\ [][NextDates]_vars

\* the date string a document is sorted by
DateStringOf(d) == IF Has(d, "fechaRegistro") THEN d.fechaRegistro ELSE d.fecha

\* s is two digits, sep, two digits, sep, two digits
HasDateForm(s, sep) ==
    /\ Len(s) = 8
    /\ s[3] = sep /\ s[6] = sep
    /\ \A i \in {1, 2, 4, 5, 7, 8} : s[i] \in Digits

TwoDigit(s, i) == 10 * DigitVal(s[i]) + DigitVal(s[i + 1])

\* the year, month and day a string of either form denotes: MM/DD/YY or DD-MM-YY
CalendarOf(s) ==
    IF HasDateForm(s, "/")
    THEN [y |-> 2000 + TwoDigit(s, 7), m |-> TwoDigit(s, 1), d |-> TwoDigit(s, 4)]
    ELSE [y |-> 2000 + TwoDigit(s, 7), m |-> TwoDigit(s, 4), d |-> TwoDigit(s, 1)]

MonthLengths == <<31, 28, 31, 30, 31, 30, 31, 31, 30, 31, 30, 31>>

\* c is a date of the Gregorian calendar
IsCalendarDate(c) ==
    /\ c.m \in 1..12
    /\ c.d >= 1
    /\ c.d <= IF c.m = 2 /\ (c.y % 4 = 0 /\ (c.y % 100 # 0 \/ c.y % 400 = 0))
              THEN 29 ELSE MonthLengths[c.m]

\* s has one of the two forms and denotes a date of the calendar
IsValidDate(s) ==
    /\ HasDateForm(s, "/") \/ HasDateForm(s, "-")
    /\ IsCalendarDate(CalendarOf(s))

\* c1 is a calendar date before c2
Earlier(c1, c2) ==
    \/ c1.y < c2.y
    \/ c1.y = c2.y /\ c1.m < c2.m
    \/ c1.y = c2.y /\ c1.m = c2.m /\ c1.d < c2.d

\* days from 1970-01-01 to the calendar date c (the civil-day count by eras
\* of 400 years, with the year starting in March)
DaysFromCivil(c) ==
    LET y == IF c.m <= 2 THEN c.y - 1 ELSE c.y
        era == y \div 400
        yoe == y - era * 400
        mp == IF c.m > 2 THEN c.m - 3 ELSE c.m + 9
        doy == (153 * mp + 2) \div 5 + c.d - 1
        doe == yoe * 365 + yoe \div 4 - yoe \div 100 + doy
    IN  era * 146097 + doe - 719468

\* C13: parseSortableDate maps a valid date written MM/DD/YY or DD-MM-YY to
\* the timestamp of the calendar date 20YY-MM-DD, and in the sorted result a
\* document with the earlier calendar date comes before a document with the
\* later one, whichever format each is written in.
C13_CalendarOrder ==
    [][RunFinishes =>
        /\ \A j \in 1..Len(batch.allData) :
              LET str == DateStringOf(batch.allData[j])
              IN  IsValidDate(str) =>
                      parseSortableDate(str, engine) = Num(DaysFromCivil(CalendarOf(str)))
        /\ \A i, j \in 1..Len(processedData') :
              LET si == DateStringOf(processedData'[i])
                  sj == DateStringOf(processedData'[j])
              IN  (IsValidDate(si) /\ IsValidDate(sj)
                     /\ Earlier(CalendarOf(si), CalendarOf(sj))) => i < j]_vars

\* C13 witness: the run pushed a work order dated 20-01-24 and then an
\* installation dated 01/15/24, and the sort has put the installation first
C13_Witness ==
    /\ last.op = "batchFinish"
    /\ Len(processedData) = 2
    /\ processedData[1].type = "installation"
    /\ processedData[1].fecha = Fecha_01_15_24_slash
    /\ processedData[2].type = "workOrder"
    /\ processedData[2].fechaRegistro = Fecha_20_01_24_dash

\* C14: parseSortableDate returns positive infinity for every string that
\* matches neither pattern and for every matching string that denotes no
\* calendar date (a month outside 01..12, a day the month does not have).
C14_InfinityForInvalid ==
    \A j \in 1..Len(processedData) :
        LET str == DateStringOf(processedData[j])
        IN  ~IsValidDate(str) => parseSortableDate(str, engine) = Infinity

-----------------------------------------------------------------------------
(* The end-to-end scenario: three files, work orders and supply requests
   dated 01-02-24 or 02/01/24, extractions that throw *)

Fecha_01_02_24_dash == <<"0", "1", "-", "0", "2", "-", "2", "4">>    \* DD-MM-YY
Fecha_02_01_24_slash == <<"0", "2", "/", "0", "1", "/", "2", "4">>   \* MM/DD/YY

ScenarioDom ==
    [lists |-> {<<"a.pdf", "b.pdf", "c.pdf">>},
     types |-> {"workOrder", "supplyRequest"},
     ids |-> {"1001"},
     dates |-> {Fecha_01_02_24_dash, Fecha_02_01_24_slash},
     thrown |-> {"Unexpected end of JSON input"},
     edits |-> [orden |-> {}, fecha |-> {}, link |-> {}]]

NextScenario ==
    \/ (~isLoading /\ nSelects < MaxRuns /\ SelectFiles(ScenarioDom))
    \/ ProcessStart
    \/ BatchBase64Settles(ScenarioDom)
    \/ BatchClassifyReturns(ScenarioDom)
    \/ BatchExtractSettles(ScenarioDom)
    \/ BatchNextFile
    \/ BatchFinish

SpecScenario == Init /\ [][NextScenario]_vars

\* the scenario's documents, in the order of the scenario's files: a work
\* order 1001 dated 01-02-24, a supply request dated 02/01/24, a failure
IsScenarioRun(docs) ==
    /\ Len(docs) = 3
    /\ docs[1].type = "workOrder" /\ docs[1].orden = "1001"
    /\ docs[1].fechaRegistro = Fecha_01_02_24_dash
    /\ docs[2].type = "supplyRequest" /\ ~IsFailed(docs[2])
    /\ docs[2].fechaRegistro = Fecha_02_01_24_slash
    /\ Has(docs[3], "error")

FirstOfJanuary2024 == Num(DaysFromCivil([y |-> 2024, m |-> 1, d |-> 1]))
FirstOfFebruary2024 == Num(DaysFromCivil([y |-> 2024, m |-> 2, d |-> 1]))

\* C15 as stated: the scenario yields three sorted documents, the failed one
\* with the failure marker as orden, and the two successes are a document of
\* 1 January 2024 followed by a document of 1 February 2024.
C15_JanuaryBeforeFebruary ==
    [][(RunFinishes /\ IsScenarioRun(batch.allData)) =>
        /\ Len(processedData') = 3
        /\ processedData'[3].orden = FailureMarker
        /\ ClaimKey(processedData'[1]) = FirstOfJanuary2024
        /\ ClaimKey(processedData'[2]) = FirstOfFebruary2024]_vars

\* C15, amended: the scenario yields three sorted documents with the failed
\* one last, its orden the failure marker; '01-02-24' read as DD-MM-YY and
\* '02/01/24' read as MM/DD/YY are both 1 February 2024, so the two successes
\* have equal keys and stay in input order, the work order first.
C15_ScenarioSorted ==
    [][(RunFinishes /\ IsScenarioRun(batch.allData)) =>
        /\ Len(processedData') = 3
        /\ processedData'[3].orden = FailureMarker
        /\ processedData'[3] = batch.allData[3]
        /\ ClaimKey(processedData'[3]) = Infinity
        /\ ClaimKey(processedData'[1]) = FirstOfFebruary2024
        /\ ClaimKey(processedData'[2]) = FirstOfFebruary2024
        /\ processedData'[1] = batch.allData[1]
        /\ processedData'[2] = batch.allData[2]]_vars

\* C15 witness: the scenario's run has finished
C15_Witness ==
    /\ last.op = "batchFinish"
    /\ IsScenarioRun(processedData)
    /\ IsFailed(processedData[3])
    /\ FileNamesOf(processedData) = <<"a.pdf", "b.pdf", "c.pdf">>

-----------------------------------------------------------------------------
(* Retries in flight together (SpecPipeline) *)

\* C16: retries in flight at the same time do not disturb each other: when a
\* retry on index i completes, in any interleaving with the steps of the
\* others, docs[i] holds that retry's outcome for its own file (a normalized
\* document on success; on failure the row as the retries on other indices
\* left it, with this retry's message as its error) and the length and every
\* other slot are unchanged, so the final sequence is the one the retries
\* give when run one after the other.
C16_RetriesIndependent ==
    [][\A s \in 1..MaxRetries :
          RetryCompletes(s) =>
              LET i == retries[s].index
                  d == At(processedData', i)
              IN  /\ Len(processedData') = Len(processedData)
                  /\ \A j \in 0..(Len(processedData) - 1) :
                        j # i => At(processedData', j) = At(processedData, j)
                  /\ IsDocument(d)
                  /\ d.originalFileName = retries[s].file
                  /\ last'.op = "retrySuccess" => ~Has(d, "error") /\ ~IsFailed(d)
                  /\ last'.op = "retryFailure" =>
                        /\ d = SetField(At(processedData, i), "error", d.error)
                        /\ d.error \in RetryMessages]_vars

\* C16 witness: the retry on index 0 has just completed with a success while
\* the retry on index 1, started before, is still waiting for its extractor
C16_Witness ==
    /\ last = [op |-> "retrySuccess", idx |-> 0]
    /\ Len(processedData) = 2
    /\ ~IsFailed(processedData[1])
    /\ IsFailed(processedData[2])
    /\ \E s \in InFlight : retries[s].pc = "extract" /\ retries[s].index = 1

-----------------------------------------------------------------------------
(* Ownership of the file list and the results (Spec) *)

\* the publications an in-flight batch run or retry makes itself
OwnPublications == {"batchPush", "batchFail", "batchFinish", "retrySuccess", "retryFailure"}

\* C17: while a batch run or a retry is in flight, the file list does not
\* change and the result sequence changes only by the publications of the
\* operations in flight: a file selection or a preview-modal edit does not
\* take effect.
C17_NoMutationInFlight ==
    [][(batch.pc # "idle" \/ InFlight # {}) =>
          /\ files' = files
          /\ processedData' # processedData => last'.op \in OwnPublications]_vars

-----------------------------------------------------------------------------
(* handleDownloadZip *)

\* files.find(f => f.name === name): the first file of that name (files are
\* identified by their position in the list), 0 when there is none
FindFile(fs, name) ==
    IF HasFile(fs, name) THEN CHOOSE j \in 1..Len(fs) :
                                  fs[j] = name /\ \A k \in 1..(j - 1) : fs[k] # name
    ELSE 0

RECURSIVE ZipFrom(_, _, _, _)
\* the for loop over dataToZip: zip.file(doc.archivo, originalFile) adds the
\* entry doc.archivo, or replaces the entry of that name; zip maps an entry
\* name to the file stored under it
ZipFrom(dataToZip, fs, i, zip) ==
    IF i > Len(dataToZip) THEN zip
    ELSE LET doc == dataToZip[i]
             originalFile == FindFile(fs, doc.originalFileName)
         IN  IF ~IsFailed(doc) /\ originalFile # 0
             THEN ZipFrom(dataToZip, fs, i + 1, SetField(zip, doc.archivo, originalFile))
             ELSE ZipFrom(dataToZip, fs, i + 1, zip)

\* processedData.filter(d => d.type === docType && d.orden !== marker)
DataToZip(data, docType) ==
    LET Keep(d) == ~IsHole(d) /\ Has(d, "type") /\ d.type = docType /\ ~IsFailed(d)
    IN  SelectSeq(data, Keep)

\* the archive handed to saveAs
ZipEntries(data, fs, docType) == ZipFrom(DataToZip(data, docType), fs, 1, <<>>)

\* the operation-level error of a failed archive, accents dropped
ZipErrorMessage == "No se pudo generar el archivo ZIP. Por favor, intenta de nuevo."

\* the click on "Descargar ZIP" of a type's section, up to the await of
\* zip.generateAsync; the archive built is recorded in the history
DownloadZip ==
    /\ mounted
    /\ \E docType \in DocumentTypes :
        /\ ~isZipping[docType]
        /\ Len(DataToZip(processedData, docType)) # 0
        /\ isZipping' = [isZipping EXCEPT ![docType] = TRUE]
        /\ last' = [op |-> "zip", idx |-> -1, docType |-> docType,
                    zip |-> ZipEntries(processedData, files, docType)]
    /\ UNCHANGED <<files, processedData, isLoading, progress, retryingIndex, previewType,
                   batch, retries, mounted, engine, error, nEdits, nSelects>>

\* mutant: the flag is cleared at the end of the try block, not in finally
ZipSettlesNoFinally ==
    /\ mounted
    /\ \E docType \in DocumentTypes :
        /\ isZipping[docType]
        /\ \/ /\ last' = [op |-> "zipSaved", idx |-> -1, docType |-> docType]
              /\ isZipping' = [isZipping EXCEPT ![docType] = FALSE]
              /\ UNCHANGED error
           \/ /\ last' = [op |-> "zipFailed", idx |-> -1, docType |-> docType]
              /\ error' = ZipErrorMessage
              /\ UNCHANGED isZipping
    /\ UNCHANGED <<files, processedData, isLoading, progress, retryingIndex, previewType,
                   batch, retries, mounted, engine, nEdits, nSelects>>

\* generateAsync resolves and saveAs is called, or the generation (or saveAs)
\* throws and the catch block sets the error; finally clears the flag
ZipSettles ==
    /\ mounted
    /\ \E docType \in DocumentTypes :
        /\ isZipping[docType]
        /\ isZipping' = [isZipping EXCEPT ![docType] = FALSE]
        /\ \/ /\ last' = [op |-> "zipSaved", idx |-> -1, docType |-> docType]
              /\ UNCHANGED error
           \/ /\ last' = [op |-> "zipFailed", idx |-> -1, docType |-> docType]
              /\ error' = ZipErrorMessage
    /\ UNCHANGED <<files, processedData, isLoading, progress, retryingIndex, previewType,
                   batch, retries, mounted, engine, nEdits, nSelects>>

\* Two files, work orders and installations, identifiers that are empty,
\* equal or different.
ZipDom ==
    [lists |-> {<<"a.pdf", "b.pdf">>},
     types |-> {"workOrder", "installation", "unknown"},
     ids |-> {"", "1001", "1002"},
     dates |-> {Fecha_20_01_24_dash},
     thrown |-> {"Unexpected end of JSON input"},
     edits |-> [orden |-> {}, fecha |-> {}, link |-> {}]]

NextZip ==
    \/ (~isLoading /\ nSelects < MaxRuns /\ SelectFiles(ZipDom))
    \/ ProcessStart
    \/ BatchBase64Settles(ZipDom)
    \/ BatchClassifyReturns(ZipDom)
    \/ BatchExtractSettles(ZipDom)
    \/ BatchNextFile
    \/ BatchFinish
    \/ DownloadZip
    \/ ZipSettles

SpecZip == Init /\ [][NextZip]_vars

\* C18: the archive built for a document type has one entry per non-failed
\* document of that type whose original file is selected, each under the
\* document's archivo name.
C18_ZipHoldsEveryDocument ==
    last.op = "zip" =>
        LET docs == DataToZip(processedData, last.docType)
            present == {j \in 1..Len(docs) : HasFile(files, docs[j].originalFileName)}
        IN  /\ Cardinality(DOMAIN last.zip) = Cardinality(present)
            /\ \A j \in present : docs[j].archivo \in DOMAIN last.zip

-----------------------------------------------------------------------------
(* Failures of the batch run *)

\* Batch runs over one or two files; every step can fail: fileToBase64 and
\* the extractors reject with a message or with the empty message, and the
\* classifier answers whatever classifyDocument can return.
FailDom ==
    [lists |-> {<<"a.pdf">>, <<"a.pdf", "b.pdf">>},
     types |-> {classifyDocument(o) : o \in ClassifierOutcomes},
     ids |-> {"", "1001"},
     dates |-> {Fecha_20_01_24_dash},
     thrown |-> ThrownMessages,
     edits |-> [orden |-> {}, fecha |-> {}, link |-> {}]]

NextFail ==
    \/ (~isLoading /\ nSelects < MaxRuns /\ SelectFiles(FailDom))
    \/ ProcessStart
    \/ BatchBase64Settles(FailDom)
    \/ BatchClassifyReturns(FailDom)
    \/ BatchExtractSettles(FailDom)
    \/ BatchNextFile
    \/ BatchFinish

SpecFail == Init /\ [][NextFail]_vars

\* the file the batch loop is working on
CurrentFile == batch.files[batch.i + 1]

\* the step appends one document to the published results
Appends == /\ Len(processedData') = Len(processedData) + 1
           /\ SubSeq(processedData', 1, Len(processedData)) = processedData

Appended == processedData'[Len(processedData')]

\* the step is the failure of the file in hand: an awaited call rejected, or
\* the classifier's answer was not a tag
FileFails ==
    /\ batch.pc \in {"base64", "classify", "extract"}
    /\ last'.op = "batchFail"

\* C19: when a file fails in the batch run, the document appended for it is
\* the failure sentinel: a workOrder whose orden is the failure marker, whose
\* archivo and originalFileName are the file's name, and whose error is a
\* non-empty message, the thrown one or the generic fallback.
C19_FailureSentinel ==
    [][FileFails =>
         /\ Appends
         /\ Appended.type = "workOrder"
         /\ Appended.orden = "Fallo de Procesamiento"
         /\ Appended.archivo = CurrentFile
         /\ Appended.originalFileName = CurrentFile
         /\ Appended.error # ""
         /\ Appended.error \in (ThrownMessages \ {""})
                                  \cup {BatchFallbackMessage, UnknownTypeMessage}]_vars

\* a file failed with the empty message and its sentinel carries the fallback
C19_Witness ==
    /\ last.op = "batchFail"
    /\ processedData # <<>>
    /\ processedData[Len(processedData)].orden = "Fallo de Procesamiento"
    /\ processedData[Len(processedData)].error = BatchFallbackMessage
    /\ processedData[Len(processedData)].originalFileName = "b.pdf"

\* the fields of the document each extractor's result is turned into
FieldsOf(type) ==
    IF type \in {"workOrder", "supplyRequest"}
    THEN {"type", "orden", "archivo", "serie", "fechaRegistro", "originalFileName"}
    ELSE {"type", "orden", "archivo", "serie", "fecha", "link", "originalFileName"}

\* C20: when the classifier answers 'unknown' no extractor is called and the
\* file is recorded as a failure with the not-recognized message; an extractor
\* is awaited only after the classifier answered one of the four tags, and
\* the document it yields is that tag's.
C20_UnknownNeverExtracted ==
    /\ [][batch.pc = "classify" /\ batch' # batch =>
            IF last'.op = "classified"
            THEN /\ last'.type \in DocumentTypes
                 /\ batch'.pc = "extract"
                 /\ batch'.type = last'.type
                 /\ batch'.i = batch.i
                 /\ processedData' = processedData
            ELSE /\ last'.op = "batchFail"
                 /\ batch'.pc = "delay"
                 /\ Appends
                 /\ IsFailed(Appended)
                 /\ Appended.originalFileName = CurrentFile
                 /\ Appended.error = UnknownTypeMessage]_vars
    /\ [][batch'.pc = "extract" /\ batch' # batch =>
            batch.pc = "classify" /\ last'.op = "classified"]_vars
    /\ [][batch.pc = "extract" /\ last'.op = "batchPush" =>
            /\ batch.type \in DocumentTypes
            /\ Appends
            /\ Appended.type = batch.type
            /\ DOMAIN Appended = FieldsOf(batch.type)]_vars

\* one file was answered 'unknown' and recorded as not recognized, the other
\* was answered 'installation' and extracted as an installation
C20_Witness ==
    /\ Len(processedData) = 2
    /\ batch.pc = "delay"
    /\ IsFailed(processedData[1])
    /\ processedData[1].error = UnknownTypeMessage
    /\ processedData[2].type = "installation"
    /\ last.op = "batchPush"

-----------------------------------------------------------------------------
(* Pacing (SpecFail) *)

\* the step publishes the record of the file in hand, a success or a failure
PublishesRecord == last'.op \in {"batchPush", "batchFail"} /\ batch.pc # "idle"

\* C21: after every file of a batch run, whether its record is a success or
\* a failure sentinel, exactly one pacing delay elapses after the record is
\* published and before the loop moves on: the publication starts the delay,
\* nothing of the run happens during it, and it ends with the next file or
\* with the end of the run.
C21_DelayAfterEveryFile ==
    /\ [][PublishesRecord =>
            /\ batch'.pc = "delay"
            /\ batch'.i = batch.i
            /\ batch'.published = batch.published + 1
            /\ batch'.delays = batch.delays]_vars
    /\ [][batch.pc = "delay" /\ batch' # batch =>
            \/ /\ batch'.pc = "base64"
               /\ batch'.i = batch.i + 1
               /\ batch'.delays = batch.delays + 1
               /\ processedData' = processedData
            \/ /\ batch'.pc = "idle"
               /\ batch.i + 1 = Len(batch.files)
               /\ last'.op = "batchFinish"]_vars
    /\ [](batch.pc \in {"base64", "classify", "extract"} =>
            batch.published = batch.i /\ batch.delays = batch.i)
    /\ [](batch.pc = "delay" =>
            batch.published = batch.i + 1 /\ batch.delays = batch.i)

\* the first file failed, its delay has elapsed and the second file is in hand
C21_Witness ==
    /\ batch.pc = "base64"
    /\ batch.i = 1
    /\ batch.delays = 1
    /\ IsFailed(batch.allData[1])
    /\ processedData = batch.allData

-----------------------------------------------------------------------------
(* Termination of a batch run *)

\* the continuation of handleProcessFiles that is waiting is resumed (the run
\* waits at one await at a time, so at most one of these is enabled)
BatchStep ==
    \/ BatchBase64Settles(FailDom)
    \/ BatchClassifyReturns(FailDom)
    \/ BatchExtractSettles(FailDom)
    \/ BatchNextFile
    \/ BatchFinish

\* Every awaited call of the run settles and every pacing delay elapses.
FairBatch == WF_vars(BatchStep)

SpecFailFair == Init /\ [][NextFail]_vars /\ FairBatch

\* ascending by sort key, positive infinity last
IsSorted(docs) ==
    \A i, j \in 1..Len(docs) : i < j => KeyLeq(ClaimKey(docs[i]), ClaimKey(docs[j]))

\* the terminal state of a batch run
Terminal ==
    /\ batch.pc = "idle"
    /\ last.op = "batchFinish"
    /\ Len(processedData) = Len(files)
    /\ IsSorted(processedData)
    /\ ~isLoading
    /\ progress = [current |-> 0, total |-> 0, startTime |-> Null]

\* C22: every started batch run reaches its terminal state (the sorted
\* sequence published, isLoading false, progress reset to idle); during the
\* run the progress total is the number of files, the start time is the one
\* taken at the start, and current is the number of the file in hand, going
\* from 1 to n by steps of one.
C22_RunTerminates ==
    /\ (batch.pc # "idle") ~> Terminal
    /\ [](batch.pc # "idle" =>
            /\ isLoading
            /\ progress.total = Len(batch.files)
            /\ progress.startTime = "t0"
            /\ progress.current = batch.i + 1
            /\ progress.current \in 1..Len(batch.files))
    /\ [][batch.pc = "idle" /\ batch'.pc # "idle" => progress'.current = 1]_vars
    /\ [][batch.pc # "idle" /\ batch'.pc # "idle" /\ progress' # progress =>
            progress' = [progress EXCEPT !.current = @ + 1]]_vars
    /\ [][RunFinishes => progress.current = Len(batch.files) /\ Terminal']_vars

\* a run over two files has reached its terminal state
C22_Witness ==
    /\ Terminal
    /\ Len(files) = 2
    /\ IsFailed(processedData[2])
    /\ ~IsFailed(processedData[1])

-----------------------------------------------------------------------------
(* Edits of the preview modal (Spec) *)

\* the positions of the documents of a type in a sequence
PositionsOfType(docs, t) ==
    {j \in 1..Len(docs) : ~IsHole(docs[j]) /\ Has(docs[j], "type") /\ docs[j].type = t}

\* the position in docs of the k-th (0-based) document of type t
PositionOfKth(docs, t, k) ==
    CHOOSE j \in PositionsOfType(docs, t) :
        Cardinality({m \in PositionsOfType(docs, t) : m < j}) = k

\* C23: an edit of the k-th row of the modal of type T updates the k-th
\* document of type T of the result sequence the update is applied to, and
\* changes only the named field of that document.
C23_EditResolvesLatest ==
    [][last'.op = "edit" =>
         LET k == last'.idx
             pos == PositionOfKth(processedData, previewType, k)
         IN  \E field \in EditableFields(previewType) :
               \E value \in EditValues(FullDom, field) :
                  processedData' =
                      [processedData EXCEPT ![pos] = SetField(@, field, value)]]_vars

-----------------------------------------------------------------------------
(* The summary of a batch run *)

\* One or two files; an extractor can read any identifier off the document,
\* the text of the failure marker included.
SummaryDom ==
    [lists |-> {<<"a.pdf">>, <<"a.pdf", "b.pdf">>},
     types |-> {"workOrder", "installation", "unknown"},
     ids |-> {"1001", FailureMarker},
     dates |-> {Fecha_20_01_24_dash},
     thrown |-> {"Unexpected end of JSON input"},
     edits |-> [orden |-> {}, fecha |-> {}, link |-> {}]]

NextSummary ==
    \/ (~isLoading /\ nSelects < MaxRuns /\ SelectFiles(SummaryDom))
    \/ ProcessStart
    \/ BatchBase64Settles(SummaryDom)
    \/ BatchClassifyReturns(SummaryDom)
    \/ BatchExtractSettles(SummaryDom)
    \/ BatchNextFile
    \/ BatchFinish

SpecSummary == Init /\ [][NextSummary]_vars

\* the files of the run whose processing failed: their record was appended
\* by the catch block, which alone sets the error field
FailedFiles == {j \in 1..Len(batch.allData) : Has(batch.allData[j], "error")}

\* C24: the summary at the end of a batch run has successCount + failCount
\* equal to the number of input files and failCount equal to the number of
\* files whose processing failed, whatever the extractors returned.
C24_SummaryCounts ==
    [][RunFinishes =>
         /\ last'.toast.successCount + last'.toast.failCount = Len(batch.files)
         /\ last'.toast.failCount = Cardinality(FailedFiles)]_vars

-----------------------------------------------------------------------------
(* handleExportAll *)

\* mutant: the four sequences are selected by type alone
DataToExportByTypeOnly(data) ==
    [workOrders |-> FilterByType(data, "workOrder"),
     supplyRequests |-> FilterByType(data, "supplyRequest"),
     uninstallations |-> FilterByType(data, "uninstallation"),
     installations |-> FilterByType(data, "installation")]

\* dataToExport: per type, processedData.filter(d => d.type === type &&
\* d.orden !== marker)
DataToExport(data) ==
    [workOrders |-> DataToZip(data, "workOrder"),
     supplyRequests |-> DataToZip(data, "supplyRequest"),
     uninstallations |-> DataToZip(data, "uninstallation"),
     installations |-> DataToZip(data, "installation")]

\* Object.values(dataToExport).some(arr => arr.length > 0)
SomeToExport(dataToExport) ==
    \E key \in DOMAIN dataToExport : Len(dataToExport[key]) > 0

\* the click on the export button, shown when there are results and enabled
\* when one of the four per-type lists of the render is not empty; the
\* argument handed to exportToExcel is recorded in the history
ExportAll ==
    /\ mounted
    /\ Len(processedData) > 0
    /\ SomeToExport(DataToExport(processedData))
    /\ LET dataToExport == DataToExport(processedData)
       IN  last' = IF SomeToExport(dataToExport)
                   THEN [op |-> "export", idx |-> -1, exported |-> dataToExport]
                   ELSE [op |-> "exportNothing", idx |-> -1]
    /\ UNCHANGED <<files, processedData, isLoading, progress, retryingIndex, previewType,
                   batch, retries, mounted, engine, isZipping, error, nEdits, nSelects>>

\* Two files, two document types and failures, retries of the failed rows,
\* and one edit of an orden cell.
ExportDom ==
    [lists |-> {<<"a.pdf", "b.pdf">>},
     types |-> {"workOrder", "installation", "unknown"},
     ids |-> {"1001"},
     dates |-> {Fecha_20_01_24_dash},
     thrown |-> {"Unexpected end of JSON input"},
     edits |-> [orden |-> {"7"}, fecha |-> {}, link |-> {}]]

NextExport ==
    \/ (~isLoading /\ InFlight = {} /\ nSelects < MaxRuns /\ SelectFiles(ExportDom))
    \/ (InFlight = {} /\ ProcessStart)
    \/ BatchBase64Settles(ExportDom)
    \/ BatchClassifyReturns(ExportDom)
    \/ BatchExtractSettles(ExportDom)
    \/ BatchNextFile
    \/ BatchFinish
    \/ (~isLoading /\ RetryStart)
    \/ RetryBase64Settles(ExportDom)
    \/ RetryClassifyReturns(ExportDom)
    \/ RetryExtractSettles(ExportDom)
    \/ OpenPreview
    \/ ClosePreview
    \/ EditField(ExportDom)
    \/ ExportAll

SpecExport == Init /\ [][NextExport]_vars

\* the sheet each document type goes to
SheetOf(type) ==
    CASE type = "workOrder" -> "workOrders"
      [] type = "supplyRequest" -> "supplyRequests"
      [] type = "uninstallation" -> "uninstallations"
      [] type = "installation" -> "installations"

\* the documents of a sequence that are not failure sentinels and are of the
\* given type, in the sequence's order
NonFailedOfType(docs, type) ==
    SelectSeq(docs, LAMBDA d : IsDocument(d) /\ ~IsFailed(d) /\ Has(d, "type")
                                 /\ d.type = type)

\* C25: the exporter receives four sequences that partition the documents of
\* the result sequence that are not failure sentinels (orden is not the
\* failure marker) by type, each in the order of the result sequence; no
\* sentinel is passed, and the exporter is not called with four empty
\* sequences.
C25_ExportPartition ==
    /\ last.op # "exportNothing"
    /\ last.op = "export" =>
        /\ DOMAIN last.exported = {SheetOf(t) : t \in DocumentTypes}
        /\ \A t \in DocumentTypes :
              /\ last.exported[SheetOf(t)] = NonFailedOfType(processedData, t)
              /\ \A j \in 1..Len(last.exported[SheetOf(t)]) :
                    ~IsFailed(last.exported[SheetOf(t)][j])
        /\ \E t \in DocumentTypes : last.exported[SheetOf(t)] # <<>>

\* an export of one work order, taken while the other row is a failure
\* sentinel
C25_Witness ==
    /\ last.op = "export"
    /\ Len(last.exported.workOrders) = 1
    /\ Len(last.exported.installations) = 0
    /\ \E j \in 1..Len(processedData) : IsFailed(processedData[j])

-----------------------------------------------------------------------------
(* Failure of an archive (SpecZip) *)

\* the step on which the handleDownloadZip call of a type finishes
ZipFinishes(t) == isZipping[t] /\ last'.op \in {"zipSaved", "zipFailed"} /\ last'.docType = t

\* C26: a failure while generating an archive sets the operation-level error
\* and leaves the result sequence and the file list unchanged; when the call
\* finishes, by success or by failure, the zipping flag of its type is false
\* again, and the flags of the other types are as they were.
C26_ZipFailureIsSurfaced ==
    [][\A t \in DocumentTypes :
          ZipFinishes(t) =>
              /\ ~isZipping'[t]
              /\ \A u \in DocumentTypes \ {t} : isZipping'[u] = isZipping[u]
              /\ processedData' = processedData
              /\ files' = files
              /\ last'.op = "zipFailed" => error' # Null
              /\ last'.op = "zipSaved" => error' = error]_vars

\* the archive of the work orders has failed while the archive of the
\* installations is still being generated
C26_Witness ==
    /\ last.op = "zipFailed"
    /\ last.docType = "workOrder"
    /\ error = ZipErrorMessage
    /\ ~isZipping["workOrder"]
    /\ isZipping["installation"]
    /\ Len(processedData) = 2

-----------------------------------------------------------------------------
(* Retries during a batch run *)

\* Two files of different names, selected once, that succeed as work orders
\* or fail; a run is started while no retry is in flight, and the retry
\* button of a failed row is clicked at any time, also while the run that
\* published the row is still going on.
RaceDom ==
    [lists |-> {<<"a.pdf", "b.pdf">>},
     types |-> {"workOrder", "unknown"},
     ids |-> {"1001"},
     dates |-> {Fecha_20_01_24_dash},
     thrown |-> {"Unexpected end of JSON input"},
     edits |-> [orden |-> {}, fecha |-> {}, link |-> {}]]

NextRace ==
    \/ (~isLoading /\ InFlight = {} /\ nSelects < MaxRuns /\ SelectFiles(RaceDom))
    \/ (InFlight = {} /\ ProcessStart)
    \/ BatchBase64Settles(RaceDom)
    \/ BatchClassifyReturns(RaceDom)
    \/ BatchExtractSettles(RaceDom)
    \/ BatchNextFile
    \/ BatchFinish
    \/ RetryStart
    \/ RetryBase64Settles(RaceDom)
    \/ RetryClassifyReturns(RaceDom)
    \/ RetryExtractSettles(RaceDom)

SpecRace == Init /\ [][NextRace]_vars

\* C27: the document a completing retry replaces is the document of the file
\* it re-processed: it has the originalFileName of the row the retry was
\* started on, whatever the batch run has published or sorted in between.
C27_RetryWritesOwnSlot ==
    [][\A s \in 1..MaxRetries :
          RetryCompletes(s) =>
              LET replaced == At(processedData, retries[s].index)
              IN  /\ IsDocument(replaced)
                  /\ Has(replaced, "originalFileName")
                  /\ replaced.originalFileName = retries[s].file]_vars

-----------------------------------------------------------------------------
(* Retries against file selections and against each other *)

\* an entry of the result sequence that is a complete document
IsComplete(d) ==
    /\ IsDocument(d)
    /\ \A f \in {"type", "orden", "archivo", "originalFileName"} : Has(d, f)

\* C28: every entry of the result sequence is a complete document (type,
\* orden, archivo and originalFileName defined), and a completing retry never
\* lengthens the sequence: after the results were cleared or shortened it
\* inserts no document, no hole and no record holding only an error.
C28_EntriesComplete ==
    /\ [](\A j \in 1..Len(processedData) : IsComplete(processedData[j]))
    /\ [][\A s \in 1..MaxRetries :
            RetryCompletes(s) => Len(processedData') <= Len(processedData)]_vars

\* C29: from the start of a retry on index i to its completion the retry
\* button of row i stays disabled (retryingIndex is i), so no second retry on
\* index i can be in flight, whatever retries start and complete on other
\* indices.
C29_OneRetryPerIndex ==
    /\ \A s \in InFlight : retryingIndex = retries[s].index
    /\ \A s, r \in InFlight : s # r => retries[s].index # retries[r].index

\* the classifier and extractor requests that are outstanding
Outstanding ==
    (IF batch.pc \in {"classify", "extract"} THEN {"batch"} ELSE {})
        \cup {s \in 1..MaxRetries : retries[s].pc \in {"classify", "extract"}}

\* C30: while a batch run is in flight at most one classifier or extractor
\* request is outstanding: isLoading is true for the whole run, so that no
\* second run starts, and no retry has a request outstanding during the run,
\* its pacing delays included.
C30_OneRequestDuringRun ==
    batch.pc # "idle" =>
        /\ isLoading
        /\ Cardinality(Outstanding) <= 1
        /\ \A s \in 1..MaxRetries : retries[s].pc \notin {"classify", "extract"}

====
